---- MODULE Spec2Model ----
(***************************************************************************)
(* Model of the touch-event sketch (touch_event_esp_pressed_only.ino):     *)
(* setup() seeds the per-channel debounce state, loop() polls every        *)
(* channel once per pass, commits a change when the debounce interval has  *)
(* elapsed since the last committed change, and sendJsonChange() emits one *)
(* UDP record per reported change.                                         *)
(***************************************************************************)
EXTENDS Integers, Sequences, FiniteSets, TLC

\* ---------------------------------------------------------------- constants
LOW == 0
HIGH == 1
Level == {LOW, HIGH}

\* Number of channels. The sketch lists five pins; the model keeps the first
\* NUM_S of them (the channels do not interact).
NUM_S == 2
Chan == 0 .. (NUM_S - 1)

DEBOUNCE_MS == 50
\* delay(5) at the end of loop()
LOOP_DELAY_MS == 5
\* delay(10) at the start of setup()
SETUP_DELAY_MS == 10

\* Width of unsigned long, scaled down from 32 bits; the clock of Spec stays
\* below 2^ULONG_BITS, so no subtraction wraps there.
ULONG_BITS == 8
ULONG_MOD == 2 ^ ULONG_BITS

\* The clock is not advanced beyond MaxTime.
MaxTime == 120
\* The longer horizon of the runs that follow one channel only.
MaxTimeOne == 160

\* setup(), line 58: the longest wait for the WiFi link
WIFI_TIMEOUT_MS == 15000

\* Time a call of setup() can take: delay(10), plus the wait for the WiFi link.
SetupElapsed == {SETUP_DELAY_MS, SETUP_DELAY_MS + DEBOUNCE_MS}
\* Time between the millis() of one pass and that of the next, not counting the
\* sends: at least delay(5).
DelaySteps == {LOOP_DELAY_MS, 2 * LOOP_DELAY_MS,
               DEBOUNCE_MS - LOOP_DELAY_MS, DEBOUNCE_MS}
\* Time between the millis() of loop() and the millis() of sendJsonChange().
SendLag == {0, LOOP_DELAY_MS}

\* The end-to-end scenario of channel 0: the millis() of its successive
\* samples, and whether each sample is the active level.
ScenTime == <<10, 60, 70, 115>>
ScenActive == <<TRUE, TRUE, FALSE, FALSE>>
ScenOff == 0 - 1

\* "no value" for a level, for a timestamp and for the result of endPacket
NoLevel == HIGH + 1
NoTs == 0 - 1
NoRes == 0 - 1
\* endPacket(): 1 on success, 0 on failure
SendResults == {0, 1}

\* The true time since a change is followed up to AgeCap, which stands for
\* "ULONG_MOD or more".
AgeCap == 2 * ULONG_MOD
\* What is remembered of channel 0 in the runs that follow its history.
NoHist == [raw |-> NoLevel, rawBefore |-> NoLevel, pressNow |-> NoTs,
           pressGap |-> NoTs, relBetween |-> 0, rel |-> 0]

\* The environments the sketch is run in.
\*   live     the channels whose pin level changes (the others keep the level
\*            read by setup)
\*   links    the states the WiFi link can take after setup
\*   setup    the times setup() can take
\*   steps    the times between the millis() of one pass and of the next
\*   lags     the times between the millis() of loop() and of sendJsonChange()
\*   horizon  the clock value the run is followed to
\*   wrap     millis() runs on and rolls over at ULONG_MOD
\*   hist     the history of channel 0 is recorded
Plain == [live |-> Chan, links |-> {TRUE}, setup |-> SetupElapsed,
          steps |-> DelaySteps, lags |-> SendLag, horizon |-> MaxTime,
          wrap |-> FALSE, hist |-> FALSE]
\* With a clock that rolls over, time moves in steps of 16 ms, which divide
\* ULONG_MOD: delay(10) and the link take 16 ms, a pass and its delay(5) take
\* 16 or 48 ms, a send takes 0 or 16 ms.
Wrap == [live |-> {0}, links |-> {TRUE}, setup |-> {16},
         steps |-> {16, 48}, lags |-> {0, 16}, horizon |-> 0,
         wrap |-> TRUE, hist |-> FALSE]
One == [live |-> {0}, links |-> BOOLEAN, setup |-> SetupElapsed,
        steps |-> DelaySteps, lags |-> SendLag, horizon |-> MaxTimeOne,
        wrap |-> FALSE, hist |-> TRUE]

\* -------------------------------------------------------------------- state
VARIABLES
  ACTIVE_STATE,        \* build option: the raw level that means "touched"
  SEND_ON_PRESS_ONLY,  \* build option: report presses only
  clock,               \* millis()
  pc,                  \* "setup", "loop" (before a pass), "body" (in the for)
  lastState,           \* int lastState[NUM_S]
  lastChangeTs,        \* unsigned long lastChangeTs[NUM_S]
  now,                 \* loop(): unsigned long now
  i,                   \* loop(): the for index
  r,                   \* loop(): the level read for channel i - 1
  prev,                \* loop(): int prev
  outcome,             \* what the last body iteration did with its sample
  prevTs,              \* the lastChangeTs a commit of that iteration replaced
  udpOut,              \* the records sent during the current pass, in order
  scen,                \* how many samples of the scenario channel 0 has seen,
                       \* ScenOff once its samples left the scenario
  scenSends,           \* the records sent for channel 0 during the scenario
  wifiUp,              \* WiFi.status() == WL_CONNECTED
  res,                 \* sendJsonChange(): int res, of the last send of the pass
  age,                 \* per channel, the true time from the moment stored in
                       \* lastChangeTs to the present millis()
  hist,                \* channel 0: its last two raw samples, the now of the
                       \* last press, the gap between the last two presses,
                       \* the releases between them and since the last one
  hold,                \* the level channel 0 is held at from some point on
  heldPress,           \* the press records sent for channel 0 since then
  prevAge              \* the true time since the change a commit replaced

vars == <<ACTIVE_STATE, SEND_ON_PRESS_ONLY, clock, pc, lastState, lastChangeTs,
          now, i, r, prev, outcome, prevTs, udpOut, scen, scenSends,
          wifiUp, res, age, hist, hold, heldPress, prevAge>>

\* ------------------------------------------------------------------ helpers
\* a - b on unsigned long
USub(a, b) == (a - b + ULONG_MOD) % ULONG_MOD

\* (mutant) the boundary excluded
DebounceElapsedStrict(t, lts) == USub(t, lts) > DEBOUNCE_MS

\* (mutant) the interval one poll too short
DebounceElapsedShort(t, lts) == USub(t, lts) >= DEBOUNCE_MS - LOOP_DELAY_MS

\* (mutant) the difference taken in signed arithmetic
DebounceElapsedSigned(t, lts) == t - lts >= DEBOUNCE_MS

\* loop(), line 73: the debounce test
DebounceElapsed(t, lts) == USub(t, lts) >= DEBOUNCE_MS

\* (mutant) a suppressed candidate restarts the window
ObserveRearm(ls, lts, sample, t) ==
  IF sample # ls
    THEN IF DebounceElapsed(t, lts)
           THEN [kind |-> "commit", lastState |-> sample, lastChangeTs |-> t,
                 prev |-> ls, prevTs |-> lts]
           ELSE [kind |-> "suppress", lastState |-> ls, lastChangeTs |-> t,
                 prev |-> NoLevel, prevTs |-> NoTs]
    ELSE [kind |-> "match", lastState |-> ls, lastChangeTs |-> lts,
          prev |-> NoLevel, prevTs |-> NoTs]

\* (mutant) every sample, matching or not, refreshes the timestamp when the
\* interval has elapsed
ObserveTouchTs(ls, lts, sample, t) ==
  IF DebounceElapsed(t, lts)
    THEN IF sample # ls
           THEN [kind |-> "commit", lastState |-> sample, lastChangeTs |-> t,
                 prev |-> ls, prevTs |-> lts]
           ELSE [kind |-> "match", lastState |-> ls, lastChangeTs |-> t,
                 prev |-> NoLevel, prevTs |-> NoTs]
    ELSE [kind |-> (IF sample # ls THEN "suppress" ELSE "match"),
          lastState |-> ls, lastChangeTs |-> lts,
          prev |-> NoLevel, prevTs |-> NoTs]

\* (mutant) a commit that does not store the new state and timestamp
ObserveNoStore(ls, lts, sample, t) ==
  IF sample # ls
    THEN IF DebounceElapsed(t, lts)
           THEN [kind |-> "commit", lastState |-> ls, lastChangeTs |-> lts,
                 prev |-> ls, prevTs |-> lts]
           ELSE [kind |-> "suppress", lastState |-> ls, lastChangeTs |-> lts,
                 prev |-> NoLevel, prevTs |-> NoTs]
    ELSE [kind |-> "match", lastState |-> ls, lastChangeTs |-> lts,
          prev |-> NoLevel, prevTs |-> NoTs]

\* (mutant) a commit stores the elapsed time, not the time
ObserveStoresElapsed(ls, lts, sample, t) ==
  IF sample # ls
    THEN IF DebounceElapsed(t, lts)
           THEN [kind |-> "commit", lastState |-> sample,
                 lastChangeTs |-> USub(t, lts), prev |-> ls, prevTs |-> lts]
           ELSE [kind |-> "suppress", lastState |-> ls, lastChangeTs |-> lts,
                 prev |-> NoLevel, prevTs |-> NoTs]
    ELSE [kind |-> "match", lastState |-> ls, lastChangeTs |-> lts,
          prev |-> NoLevel, prevTs |-> NoTs]

\* (mutant) a change is committed only when the previous poll of channel 0 read
\* the same level
ObserveTwoPolls(ls, lts, sample, t) ==
  IF sample # ls
    THEN IF DebounceElapsed(t, lts) /\ sample = hist.raw
           THEN [kind |-> "commit", lastState |-> sample, lastChangeTs |-> t,
                 prev |-> ls, prevTs |-> lts]
           ELSE [kind |-> "suppress", lastState |-> ls, lastChangeTs |-> lts,
                 prev |-> NoLevel, prevTs |-> NoTs]
    ELSE [kind |-> "match", lastState |-> ls, lastChangeTs |-> lts,
          prev |-> NoLevel, prevTs |-> NoTs]

\* loop(), lines 71-77: what an iteration does with the sample of a channel
\* whose committed state is ls, last changed at lts
Observe(ls, lts, sample, t) ==
  IF sample # ls
    THEN IF DebounceElapsed(t, lts)
           THEN [kind |-> "commit", lastState |-> sample, lastChangeTs |-> t,
                 prev |-> ls, prevTs |-> lts]
           ELSE [kind |-> "suppress", lastState |-> ls, lastChangeTs |-> lts,
                 prev |-> NoLevel, prevTs |-> NoTs]
    ELSE [kind |-> "match", lastState |-> ls, lastChangeTs |-> lts,
          prev |-> NoLevel, prevTs |-> NoTs]

\* (mutant) the press-only option ignored
ShouldSendAlways(sample) == TRUE

\* loop(), lines 79-86: is a committed change to level sample reported
ShouldSend(sample) ==
  IF SEND_ON_PRESS_ONLY THEN sample = ACTIVE_STATE ELSE TRUE

\* (mutant) the zero-based index sent as it is
SensorNumberZeroBased(idx) == idx

\* loop(), lines 81 and 85: the first argument of sendJsonChange
SensorNumber(idx) == idx + 1

\* sendJsonChange(), line 29: the ts field, given the millis() of the call
RecordTs(ms, t) == ms

\* sendJsonChange(), lines 25-30: the record, given the millis() of the call
JsonChange(idx, newState, ms, t) ==
  [device |-> "touch_esp", sensor |-> idx, state |-> newState,
   ts |-> RecordTs(ms, t)]

\* The scenario after channel 0, having seen k of its samples, reads sample at t
ScenNext(k, sample, t) ==
  IF /\ k # ScenOff
     /\ k < Len(ScenTime)
     /\ t = ScenTime[k + 1]
     /\ (sample = ACTIVE_STATE) = ScenActive[k + 1]
    THEN k + 1
    ELSE ScenOff

\* ------------------------------------------------------------------ actions
\* millis() after d more milliseconds, in environment E
Later(E, d) == IF E.wrap THEN (clock + d) % ULONG_MOD ELSE clock + d
\* The run is followed through d more milliseconds.
Followed(E, d) == E.wrap \/ clock + d <= E.horizon
\* The ages after d more milliseconds.
Older(d) ==
  [c \in Chan |-> IF age[c] + d >= AgeCap THEN AgeCap ELSE age[c] + d]
\* The true time from lastChangeTs[c] to the millis() read into now.
AgeAtNow(c) == age[c] - USub(clock, now)

\* digitalRead(S_PINS[c]) in environment E
SamplesOf(E, c) ==
  IF c \in E.live
    THEN IF c = 0 /\ hold # NoLevel THEN {hold} ELSE Level
    ELSE {lastState[c]}

\* udp.endPacket(): a datagram cannot leave while the link is down
ResultsOf(E) == IF wifiUp THEN SendResults ELSE {0}

\* (mutant) the for skips every other channel
NextIndexSkip(idx) == idx + 2

\* loop(), line 69: i++
NextIndex(idx) == idx + 1

\* The history of channel 0 after an iteration for it with outcome o
HistNext(o, sample) ==
  IF o.kind = "commit" /\ sample = ACTIVE_STATE
    THEN [raw |-> sample, rawBefore |-> hist.raw, pressNow |-> now,
          pressGap |-> IF hist.pressNow = NoTs THEN NoTs ELSE now - hist.pressNow,
          relBetween |-> hist.rel, rel |-> 0]
    ELSE IF o.kind = "commit"
      THEN [hist EXCEPT !.raw = sample, !.rawBefore = hist.raw,
                        !.rel = hist.rel + 1]
      ELSE [hist EXCEPT !.raw = sample, !.rawBefore = hist.raw]

Init ==
  /\ ACTIVE_STATE \in Level
  /\ SEND_ON_PRESS_ONLY \in BOOLEAN
  /\ clock = 0
  /\ pc = "setup"
  /\ lastState = [c \in Chan |-> 0]
  /\ lastChangeTs = [c \in Chan |-> 0]
  /\ now = 0
  /\ i = 0
  /\ r = NoLevel
  /\ prev = NoLevel
  /\ outcome = "none"
  /\ prevTs = NoTs
  /\ udpOut = <<>>
  /\ scen = ScenOff
  /\ scenSends = 0
  /\ wifiUp = FALSE
  /\ res = NoRes
  /\ age = [c \in Chan |-> 0]
  /\ hist = NoHist
  /\ hold = NoLevel
  /\ heldPress = 0
  /\ prevAge = NoTs

\* (mutant) setup() stamps the channels with the time of the read
SetupStampedIn(E) ==
  /\ pc = "setup"
  /\ \E seed \in [Chan -> Level], d \in E.setup :
       /\ lastState' = seed
       /\ lastChangeTs' = [c \in Chan |-> Later(E, d)]
       /\ clock' = Later(E, d)
       /\ age' = [c \in Chan |-> 0]
       /\ scen' = IF seed[0] # ACTIVE_STATE THEN 0 ELSE ScenOff
       /\ wifiUp' \in IF d < SETUP_DELAY_MS + WIFI_TIMEOUT_MS
                        THEN {TRUE} ELSE E.links
       /\ hist' = IF E.hist THEN [NoHist EXCEPT !.raw = seed[0]] ELSE hist
  /\ pc' = "loop"
  /\ UNCHANGED <<ACTIVE_STATE, SEND_ON_PRESS_ONLY, now, i, r, prev, outcome,
                 prevTs, udpOut, scenSends, res, hold, heldPress, prevAge>>

\* setup(): every channel is seeded from one digitalRead, with timestamp 0; the
\* while of line 58 ends before its timeout only with the link up
SetupIn(E) ==
  /\ pc = "setup"
  /\ \E seed \in [Chan -> Level], d \in E.setup :
       /\ lastState' = seed
       /\ lastChangeTs' = [c \in Chan |-> 0]
       /\ clock' = Later(E, d)
       /\ age' = [c \in Chan |-> d]
       /\ scen' = IF seed[0] # ACTIVE_STATE THEN 0 ELSE ScenOff
       /\ wifiUp' \in IF d < SETUP_DELAY_MS + WIFI_TIMEOUT_MS
                        THEN {TRUE} ELSE E.links
       /\ hist' = IF E.hist THEN [NoHist EXCEPT !.raw = seed[0]] ELSE hist
  /\ pc' = "loop"
  /\ UNCHANGED <<ACTIVE_STATE, SEND_ON_PRESS_ONLY, now, i, r, prev, outcome,
                 prevTs, udpOut, scenSends, res, hold, heldPress, prevAge>>

\* loop(), lines 68-69: read the clock, enter the for
LoopStart ==
  /\ pc = "loop"
  /\ now' = clock
  /\ i' = 0
  /\ udpOut' = <<>>
  /\ pc' = "body"
  /\ UNCHANGED <<ACTIVE_STATE, SEND_ON_PRESS_ONLY, clock, lastState,
                 lastChangeTs, r, prev, outcome, prevTs, scen, scenSends,
                 wifiUp, res, age, hist, hold, heldPress, prevAge>>

\* (mutant) a failed send takes the committed change back, for a later retry
LoopBodyRetryIn(E) ==
  /\ pc = "body"
  /\ i < NUM_S
  /\ \E sample \in SamplesOf(E, i) :
       LET o == Observe(lastState[i], lastChangeTs[i], sample, now)
           send == o.kind = "commit" /\ ShouldSend(sample)
           k == IF i = 0 THEN ScenNext(scen, sample, now) ELSE scen
       IN
       /\ r' = sample
       /\ outcome' = o.kind
       /\ prev' = o.prev
       /\ prevTs' = o.prevTs
       /\ scen' = k
       /\ scenSends' = IF k = ScenOff THEN 0
                       ELSE IF i = 0 /\ send THEN scenSends + 1
                       ELSE scenSends
       /\ hist' = IF E.hist /\ i = 0 THEN HistNext(o, sample) ELSE hist
       /\ prevAge' = IF o.kind = "commit" THEN AgeAtNow(i) ELSE NoTs
       /\ heldPress' = IF hold # NoLevel /\ i = 0 /\ send
                           /\ sample = ACTIVE_STATE /\ heldPress < 2
                         THEN heldPress + 1 ELSE heldPress
       /\ IF send
            THEN \E lag \in E.lags, result \in ResultsOf(E) :
                   /\ Followed(E, lag)
                   /\ clock' = Later(E, lag)
                   /\ res' = result
                   /\ udpOut' = Append(udpOut,
                        JsonChange(SensorNumber(i), sample, Later(E, lag), now))
                   /\ IF result = 0
                        THEN /\ lastState' = lastState
                             /\ lastChangeTs' = lastChangeTs
                             /\ age' = Older(lag)
                        ELSE /\ lastState' = [lastState EXCEPT ![i] = o.lastState]
                             /\ lastChangeTs' =
                                  [lastChangeTs EXCEPT ![i] = o.lastChangeTs]
                             /\ age' = [Older(lag) EXCEPT
                                          ![i] = USub(Later(E, lag), now)]
            ELSE /\ lastState' = [lastState EXCEPT ![i] = o.lastState]
                 /\ lastChangeTs' = [lastChangeTs EXCEPT ![i] = o.lastChangeTs]
                 /\ age' = IF o.kind = "commit"
                             THEN [age EXCEPT ![i] = USub(clock, now)]
                             ELSE age
                 /\ UNCHANGED <<clock, udpOut, res>>
  /\ i' = NextIndex(i)
  /\ UNCHANGED <<ACTIVE_STATE, SEND_ON_PRESS_ONLY, pc, now, wifiUp, hold>>

\* loop(), lines 70-88: one iteration of the for, with sendJsonChange inlined
LoopBodyIn(E) ==
  /\ pc = "body"
  /\ i < NUM_S
  /\ \E sample \in SamplesOf(E, i) :
       LET o == Observe(lastState[i], lastChangeTs[i], sample, now)
           send == o.kind = "commit" /\ ShouldSend(sample)
           k == IF i = 0 THEN ScenNext(scen, sample, now) ELSE scen
       IN
       /\ r' = sample
       /\ outcome' = o.kind
       /\ prev' = o.prev
       /\ prevTs' = o.prevTs
       /\ lastState' = [lastState EXCEPT ![i] = o.lastState]
       /\ lastChangeTs' = [lastChangeTs EXCEPT ![i] = o.lastChangeTs]
       /\ scen' = k
       /\ scenSends' = IF k = ScenOff THEN 0
                       ELSE IF i = 0 /\ send THEN scenSends + 1
                       ELSE scenSends
       /\ hist' = IF E.hist /\ i = 0 THEN HistNext(o, sample) ELSE hist
       /\ prevAge' = IF o.kind = "commit" THEN AgeAtNow(i) ELSE NoTs
       /\ heldPress' = IF hold # NoLevel /\ i = 0 /\ send
                           /\ sample = ACTIVE_STATE /\ heldPress < 2
                         THEN heldPress + 1 ELSE heldPress
       /\ IF send
            THEN \E lag \in E.lags, result \in ResultsOf(E) :
                   /\ Followed(E, lag)
                   /\ clock' = Later(E, lag)
                   /\ res' = result
                   /\ udpOut' = Append(udpOut,
                        JsonChange(SensorNumber(i), sample, Later(E, lag), now))
                   /\ age' = [Older(lag) EXCEPT ![i] = USub(Later(E, lag), now)]
            ELSE /\ age' = IF o.kind = "commit"
                             THEN [age EXCEPT ![i] = USub(clock, now)]
                             ELSE age
                 /\ UNCHANGED <<clock, udpOut, res>>
  /\ i' = NextIndex(i)
  /\ UNCHANGED <<ACTIVE_STATE, SEND_ON_PRESS_ONLY, pc, now, wifiUp, hold>>

\* loop(), lines 89-91: leave the for, delay(5), return; the link comes and
\* goes while the sketch sleeps
LoopEndIn(E) ==
  /\ pc = "body"
  /\ i >= NUM_S
  /\ \E d \in E.steps :
       /\ Followed(E, d)
       /\ clock' = Later(E, d)
       /\ age' = Older(d)
  /\ wifiUp' \in E.links
  /\ pc' = "loop"
  /\ r' = NoLevel
  /\ prev' = NoLevel
  /\ outcome' = "none"
  /\ prevTs' = NoTs
  /\ res' = NoRes
  /\ prevAge' = NoTs
  /\ UNCHANGED <<ACTIVE_STATE, SEND_ON_PRESS_ONLY, lastState, lastChangeTs,
                 now, i, udpOut, scen, scenSends, hist, hold, heldPress>>

\* The sketch with every channel live, the link up and a clock that does not
\* roll over.
Setup == SetupIn(Plain)
LoopBody == LoopBodyIn(Plain)
LoopEnd == LoopEndIn(Plain)

Next == Setup \/ LoopStart \/ LoopBody \/ LoopEnd

Spec == Init /\ [][Next]_vars

\* The sketch with channel 0 alone live, followed for longer, with a link that
\* comes and goes and the history of channel 0 recorded.
SetupOne == SetupIn(One)
LoopBodyOne == LoopBodyIn(One)
LoopEndOne == LoopEndIn(One)

NextOne == SetupOne \/ LoopStart \/ LoopBodyOne \/ LoopEndOne

SpecOne == Init /\ [][NextOne]_vars

\* From some point on the pin of channel 0 stays at a level that is not the
\* committed one.
HoldLevel ==
  /\ pc = "loop"
  /\ hold = NoLevel
  /\ \E v \in Level \ {lastState[0]} : hold' = v
  /\ UNCHANGED <<ACTIVE_STATE, SEND_ON_PRESS_ONLY, clock, pc, lastState,
                 lastChangeTs, now, i, r, prev, outcome, prevTs, udpOut, scen,
                 scenSends, wifiUp, res, age, hist, heldPress, prevAge>>

\* The sketch with channel 0 alone live and a clock that runs on and rolls over;
\* loop() is called again and again, and delay() returns.
SetupWrap == SetupIn(Wrap)
LoopBodyWrap == LoopBodyIn(Wrap)
LoopEndWrap == LoopEndIn(Wrap)

Running == SetupWrap \/ LoopStart \/ LoopBodyWrap \/ LoopEndWrap

NextWrap == Running \/ HoldLevel

SpecWrap == Init /\ [][NextWrap]_vars /\ WF_vars(Running)

TypeOK ==
  /\ ACTIVE_STATE \in Level
  /\ SEND_ON_PRESS_ONLY \in BOOLEAN
  /\ clock \in 0 .. (MaxTimeOne + ULONG_MOD)
  /\ pc \in {"setup", "loop", "body"}
  /\ lastState \in [Chan -> Level]
  /\ lastChangeTs \in [Chan -> 0 .. (MaxTimeOne + ULONG_MOD)]
  /\ now \in 0 .. (MaxTimeOne + ULONG_MOD)
  /\ i \in 0 .. NUM_S
  /\ r \in Level \cup {NoLevel}
  /\ prev \in Level \cup {NoLevel}
  /\ outcome \in {"none", "match", "suppress", "commit"}
  /\ prevTs \in (0 .. (MaxTimeOne + ULONG_MOD)) \cup {NoTs}
  /\ Len(udpOut) <= NUM_S
  /\ scen \in (0 .. Len(ScenTime)) \cup {ScenOff}
  /\ scenSends \in 0 .. Len(ScenTime)
  /\ wifiUp \in BOOLEAN
  /\ res \in SendResults \cup {NoRes}
  /\ age \in [Chan -> 0 .. AgeCap]
  /\ hold \in Level \cup {NoLevel}
  /\ heldPress \in 0 .. 2
  /\ prevAge \in (0 .. AgeCap) \cup {NoTs}

\* ------------------------------------------------------------------- claims
\* The next step is an iteration of the for of loop(), for channel i.
AtSample == pc = "body" /\ i < NUM_S
\* The records a step puts on the wire.
NewRecords == IF udpOut' = udpOut \/ udpOut' = <<>> THEN <<>>
              ELSE SubSeq(udpOut', Len(udpOut) + 1, Len(udpOut'))
\* A step sends nothing and keeps the debounce state of every channel.
NothingHappens ==
  /\ lastState' = lastState
  /\ lastChangeTs' = lastChangeTs
  /\ NewRecords = <<>>
  /\ clock' = clock

\* C1: whenever loop() has just committed a change of a channel, the timestamp it
\* wrote is at least DEBOUNCE_MS later than the timestamp it replaced (the one
\* of the channel's previous committed change, or the seed of setup()).
C1_DebounceSpacing ==
  outcome = "commit" =>
    /\ prevTs # NoTs
    /\ lastChangeTs[i - 1] = now
    /\ lastChangeTs[i - 1] - prevTs >= DEBOUNCE_MS

\* C1 witness: a change committed on top of an earlier change committed by loop()
\* (the seed of setup() is 0, every pass runs at a later time).
C1_Witness == outcome = "commit" /\ prevTs > 0

\* C2: a sample that differs from lastState[i] less than DEBOUNCE_MS after
\* lastChangeTs[i] is suppressed: no state change, no new timestamp, no send, so
\* the window stays anchored at the last committed change.
C2_Suppression ==
  [][(AtSample /\ r' # lastState[i] /\ now - lastChangeTs[i] < DEBOUNCE_MS)
       => (outcome' = "suppress" /\ NothingHappens)]_vars

\* C2 witness: a candidate suppressed in the window of a change that loop()
\* committed, more than one poll after that change.
C2_Witness ==
  /\ outcome = "suppress"
  /\ lastChangeTs[i - 1] > 0
  /\ now - lastChangeTs[i - 1] > LOOP_DELAY_MS

\* C3: a sample that differs from lastState[i] at now >= lastChangeTs[i] +
\* DEBOUNCE_MS (the boundary included) is committed: lastState[i] becomes the
\* sample, which is the other level, prev is the old state and lastChangeTs[i]
\* becomes now.
C3_Confirmation ==
  [][(AtSample /\ r' # lastState[i] /\ now >= lastChangeTs[i] + DEBOUNCE_MS)
       => /\ outcome' = "commit"
          /\ lastState'[i] = r'
          /\ r' = HIGH + LOW - lastState[i]
          /\ prev' = lastState[i]
          /\ lastChangeTs'[i] = now
          /\ \A c \in Chan \ {i} : /\ lastState'[c] = lastState[c]
                                    /\ lastChangeTs'[c] = lastChangeTs[c]]_vars

\* C3 witness: a change committed exactly DEBOUNCE_MS after the previous one.
C3_Witness ==
  /\ outcome = "commit"
  /\ now = prevTs + DEBOUNCE_MS
  /\ lastState[i - 1] = r
  /\ prev # r

\* C4: with SEND_ON_PRESS_ONLY, an iteration sends exactly one record when it
\* commits a change into ACTIVE_STATE, and none otherwise (a commit into the
\* inactive level included); nothing else sends.
C4_PressOnly ==
  [][SEND_ON_PRESS_ONLY =>
       IF AtSample /\ lastState'[i] # lastState[i] /\ lastState'[i] = ACTIVE_STATE
         THEN Len(NewRecords) = 1 /\ NewRecords[1].sensor = i + 1
         ELSE NewRecords = <<>>]_vars

\* C4 witness: a pass in which every channel changed and exactly one of the
\* changes was a press, so exactly one record went out.
C4_Witness ==
  /\ SEND_ON_PRESS_ONLY
  /\ pc = "body"
  /\ i = NUM_S
  /\ \A c \in Chan : lastChangeTs[c] = now
  /\ Cardinality({c \in Chan : lastState[c] = ACTIVE_STATE}) = 1
  /\ Len(udpOut) = 1

\* C5: a sample equal to lastState[i] changes nothing and sends nothing,
\* whatever the time.
C5_MatchingSample ==
  [][(AtSample /\ r' = lastState[i]) => (outcome' = "match" /\ NothingHappens)]_vars

\* C5 witness: a matching sample read after the window of a committed change
\* has passed.
C5_Witness ==
  /\ outcome = "match"
  /\ lastChangeTs[i - 1] > 0
  /\ now - lastChangeTs[i - 1] >= DEBOUNCE_MS

\* C6: in press-only mode, channel 0 seeded inactive and sampled active at 10,
\* active at 60, inactive at 70, inactive at 115: ignored; committed
\* inactive->active and one record; ignored; committed active->inactive and no
\* record; at the end inactive since 115 with one record in all.
C6_Scenario ==
  (SEND_ON_PRESS_ONLY /\ scen # ScenOff) =>
    LET inactive == HIGH + LOW - ACTIVE_STATE
        fresh == pc = "body" /\ i = 1
    IN
    /\ scen = 0 => lastState[0] = inactive /\ lastChangeTs[0] = 0 /\ scenSends = 0
    /\ scen = 1 =>
         /\ lastState[0] = inactive /\ lastChangeTs[0] = 0 /\ scenSends = 0
         /\ fresh => outcome = "suppress" /\ udpOut = <<>>
    /\ scen = 2 =>
         /\ lastState[0] = ACTIVE_STATE /\ lastChangeTs[0] = 60 /\ scenSends = 1
         /\ fresh => /\ outcome = "commit"
                      /\ prev = inactive
                      /\ Len(udpOut) = 1
                      /\ udpOut[1].sensor = 1
    /\ scen = 3 =>
         /\ lastState[0] = ACTIVE_STATE /\ lastChangeTs[0] = 60 /\ scenSends = 1
         /\ fresh => outcome = "suppress" /\ udpOut = <<>>
    /\ scen = 4 =>
         /\ lastState[0] = inactive /\ lastChangeTs[0] = 115 /\ scenSends = 1
         /\ fresh => outcome = "commit" /\ prev = ACTIVE_STATE /\ udpOut = <<>>

\* C6 witness: the scenario has run to its last sample.
C6_Witness == SEND_ON_PRESS_ONLY /\ scen = Len(ScenTime) /\ pc = "body" /\ i = 1

\* C7: once an iteration has committed a change for (channel, sample, now),
\* observing the same (channel, sample, now) again, any number of times, commits
\* nothing and leaves lastState and lastChangeTs of the channel as they are.
C7_Idempotent ==
  outcome = "commit" =>
    LET again == Observe(lastState[i - 1], lastChangeTs[i - 1], r, now)
        twice == Observe(again.lastState, again.lastChangeTs, r, now)
    IN
    /\ again.kind # "commit"
    /\ again.lastState = lastState[i - 1]
    /\ again.lastChangeTs = lastChangeTs[i - 1]
    /\ twice = again

\* C7 witness: a change has just been committed and stored.
C7_Witness ==
  /\ outcome = "commit"
  /\ lastState[i - 1] = r
  /\ lastChangeTs[i - 1] = now
  /\ prevTs + DEBOUNCE_MS <= now

\* C8 (as claimed): the ts of every record sent is the time at which its change
\* was committed, the value stored in lastChangeTs of its channel.
C8_TsIsCommitTime ==
  \A k \in 1 .. Len(udpOut) :
    /\ udpOut[k].sensor - 1 \in Chan
    /\ udpOut[k].ts = now
    /\ udpOut[k].ts = lastChangeTs[udpOut[k].sensor - 1]

\* C9: every record sent carries device "touch_esp" and the one-based number of
\* the channel whose change was committed in this pass, a number in 1..NUM_S;
\* the records of a pass are for distinct channels.
C9_DeviceAndSensor ==
  /\ \A k \in 1 .. Len(udpOut) :
       /\ udpOut[k].device = "touch_esp"
       /\ udpOut[k].sensor \in 1 .. NUM_S
       /\ udpOut[k].sensor - 1 < i
       /\ lastChangeTs[udpOut[k].sensor - 1] = now
       /\ lastState[udpOut[k].sensor - 1] = udpOut[k].state
  /\ \A k, l \in 1 .. Len(udpOut) : udpOut[k].sensor = udpOut[l].sensor => k = l

\* C9 witness: a pass in which every channel sent a record, the last one
\* carrying sensor number NUM_S.
C9_Witness == Len(udpOut) = NUM_S /\ udpOut[NUM_S].sensor = NUM_S

\* C10 (as claimed): the state of every record sent is the logical state of its
\* channel, 1 for active and 0 for inactive, whatever ACTIVE_STATE is.
C10_LogicalState ==
  \A k \in 1 .. Len(udpOut) :
    udpOut[k].state =
      (IF lastState[udpOut[k].sensor - 1] = ACTIVE_STATE THEN 1 ELSE 0)

\* C11: what an iteration does to lastState and lastChangeTs, whether it sends
\* and where the loop goes next are fixed by the committed state, now and the
\* sample: neither the result of this send nor that of any earlier one enters.
\* A failed send is one attempt, not repeated, and the for moves on.
C11_SendResultIgnored ==
  [][AtSample =>
       LET o == [differs |-> r' # lastState[i],
                 elapsed |-> now - lastChangeTs[i] >= DEBOUNCE_MS]
           commit == o.differs /\ o.elapsed
           report == commit /\ (SEND_ON_PRESS_ONLY => r' = ACTIVE_STATE)
       IN
       /\ lastState' = [lastState EXCEPT ![i] = IF commit THEN r' ELSE @]
       /\ lastChangeTs' = [lastChangeTs EXCEPT ![i] = IF commit THEN now ELSE @]
       /\ Len(NewRecords) = (IF report THEN 1 ELSE 0)
       /\ report => res' \in SendResults
       /\ i' = i + 1
       /\ pc' = "body"]_vars

\* C11 witness: a send has failed and the change it reports stays committed.
C11_Witness ==
  /\ res = 0
  /\ outcome = "commit"
  /\ lastState[i - 1] = r
  /\ lastChangeTs[i - 1] = now
  /\ udpOut # <<>>

C14_ChannelOrder ==
  /\ [](pc = "body" =>
          /\ \A k \in 1 .. Len(udpOut) : udpOut[k].sensor <= i
          /\ \A k, l \in 1 .. Len(udpOut) :
               k < l => udpOut[k].sensor < udpOut[l].sensor)
  /\ [][/\ pc = "loop" => (pc' = "body" /\ i' = 0)
        /\ AtSample => /\ i' = i + 1
                        /\ pc' = "body"
                        /\ r' \in Level
                        /\ \A k \in 1 .. Len(NewRecords) :
                             NewRecords[k].sensor = i + 1
        /\ (pc = "body" /\ pc' = "loop") => i = NUM_S]_vars

\* C14 witness: a finished pass in which every channel sent, the records in
\* channel order.
C14_Witness ==
  /\ pc = "body"
  /\ i = NUM_S
  /\ Len(udpOut) = NUM_S
  /\ \A k \in 1 .. NUM_S : udpOut[k].sensor = k

\* C15: setup() leaves every channel with a level it read and timestamp 0 and
\* sends nothing; the first differing sample of a channel is then committed
\* exactly when now >= DEBOUNCE_MS.
C15_Seeding ==
  [][/\ pc = "setup" =>
          /\ pc' = "loop"
          /\ lastState' \in [Chan -> Level]
          /\ \A c \in Chan : lastChangeTs'[c] = 0
          /\ udpOut' = <<>>
          /\ res' = NoRes
     /\ (AtSample /\ lastChangeTs[i] = 0 /\ r' # lastState[i]) =>
          /\ (lastState'[i] = r') = (now >= DEBOUNCE_MS)
          /\ (lastState'[i] = lastState[i]) = (now < DEBOUNCE_MS)]_vars

\* C15 witness: the first differing sample of a channel, read at millis() =
\* DEBOUNCE_MS, committed on top of the seed.
C15_Witness ==
  /\ outcome = "commit"
  /\ prevTs = 0
  /\ now = DEBOUNCE_MS
  /\ lastChangeTs[i - 1] = DEBOUNCE_MS

\* C16: the committed changes of channel 0 alternate, so between its last two
\* presses there is exactly one release, never two releases follow each other,
\* and the now of the two presses differ by at least 2 * DEBOUNCE_MS.
C16_PressSpacing ==
  /\ hist.rel \in {0, 1}
  /\ hist.pressGap # NoTs =>
       /\ hist.relBetween = 1
       /\ hist.pressGap >= 2 * DEBOUNCE_MS

\* C16 witness: channel 0 has been pressed twice.
C16_Witness == hist.pressGap # NoTs /\ hist.pressNow = now

\* C18: a sample of channel 0 that differs from its committed state when
\* DEBOUNCE_MS has elapsed is committed, and reported if it is to be, in that
\* very iteration, whatever the earlier polls read.
C18_SingleSample ==
  [][(/\ AtSample
      /\ i = 0
      /\ hist.raw \in Level
      /\ r' # lastState[0]
      /\ now - lastChangeTs[0] >= DEBOUNCE_MS) =>
       /\ lastState'[0] = r'
       /\ lastChangeTs'[0] = now
       /\ Len(NewRecords) =
            (IF SEND_ON_PRESS_ONLY => r' = ACTIVE_STATE THEN 1 ELSE 0)]_vars

\* C18 witness: a press committed and reported on the first poll that read
\* the new level (the poll before read the old one).
C18_Witness ==
  /\ pc = "body"
  /\ i = 1
  /\ outcome = "commit"
  /\ r = ACTIVE_STATE
  /\ hist.raw = r
  /\ hist.rawBefore \in Level \ {r}
  /\ udpOut # <<>>

\* C13 (as claimed): no step writes into lastChangeTs a value smaller than the
\* one it replaces.
C13_Monotonic ==
  [][\A c \in Chan : lastChangeTs'[c] >= lastChangeTs[c]]_vars

\* C13 (amended): no step writes into lastChangeTs[c] a value smaller than the
\* one it replaces, as long as millis() has not rolled over since that one was
\* written.
C13_MonotonicUntilRollover ==
  [][\A c \in Chan :
       lastChangeTs[c] + age[c] < ULONG_MOD =>
         lastChangeTs'[c] >= lastChangeTs[c]]_vars

\* C13 witness: a change committed on top of an earlier one with no rollover in
\* between, the new timestamp the larger.
C13_Witness ==
  /\ outcome = "commit"
  /\ prevTs > 0
  /\ prevTs + prevAge < ULONG_MOD
  /\ lastChangeTs[i - 1] > prevTs

\* C17: once the pin of channel 0 stays at a level other than the committed one,
\* the committed state becomes that level, in the first pass whose now is
\* DEBOUNCE_MS or more past lastChangeTs[0] and in none before, and stays
\* there; one press record is sent for it if the level is ACTIVE_STATE, none
\* otherwise.
C17_Tracking ==
  /\ \A v \in Level : (hold = v) ~> (lastState[0] = v)
  /\ [](hold # NoLevel =>
          heldPress = (IF lastState[0] = hold /\ hold = ACTIVE_STATE
                         THEN 1 ELSE 0))
  /\ [][/\ (hold # NoLevel /\ lastState[0] = hold) => lastState'[0] = hold
        /\ (AtSample /\ i = 0 /\ hold # NoLevel /\ lastState[0] # hold) =>
             (lastState'[0] = hold) =
               ((now - lastChangeTs[0]) % ULONG_MOD >= DEBOUNCE_MS)]_vars

\* C17 witness: the held level is the active one, it has been committed and
\* its record sent.
C17_Witness ==
  /\ hold = ACTIVE_STATE
  /\ lastState[0] = hold
  /\ heldPress = 1

\* C19: a sample that differs from the committed state, read a true time e <
\* ULONG_MOD after the last committed change, is committed exactly when e >=
\* DEBOUNCE_MS, also when millis() has rolled over in between.
C19_Rollover ==
  [][(AtSample /\ r' # lastState[i] /\ AgeAtNow(i) < ULONG_MOD) =>
       /\ (lastState'[i] = r' /\ lastChangeTs'[i] = now) =
            (AgeAtNow(i) >= DEBOUNCE_MS)
       /\ (lastState'[i] = lastState[i] /\ lastChangeTs'[i] = lastChangeTs[i]) =
            (AgeAtNow(i) < DEBOUNCE_MS)]_vars

\* C19 witness: a change committed with now numerically below the timestamp
\* it replaces, less than ULONG_MOD after it.
C19_Witness ==
  /\ outcome = "commit"
  /\ now < prevTs
  /\ prevAge < ULONG_MOD
  /\ prevAge >= DEBOUNCE_MS
====
